---- MODULE Spec2Model ----
(* A model of the bitbloom crate: BitVec (src/src/bit_vec.rs) and Bloom     *)
(* (src/src/bloom.rs).  One filter is constructed per behaviour by          *)
(* new_with_key or new_with_rng and then driven by set, contain and clear.  *)
EXTENDS Integers, Sequences, FiniteSets, TLC

----------------------------------------------------------------------------
(* Bounds of the model                                                      *)

\* largest expected item count `items` handed to a constructor
MaxItems == 3
\* the hashable values handed to set/contain are 0..MaxValue
MaxValue == 2
\* the 64-bit key words handed to new_with_key are 0..MaxKeyWord
MaxKeyWord == 1
\* the randomness source handed to new_with_rng is at one of the
\* positions 0..MaxSeed of its stream
MaxSeed == 1

Values == 0..MaxValue
KeyWords == 0..MaxKeyWord
\* the (k0, k1) pairs handed to new_with_key: consecutive words
KeyPairs == {<<w, (w + 1) % (MaxKeyWord + 1)>> : w \in KeyWords}

----------------------------------------------------------------------------
(* f64 error rates.  A rate is NaN or a number of thousandths; logarithms   *)
(* are carried in millionths.                                               *)

NaN == [nan |-> TRUE, milli |-> 0]
Rate(r) == [nan |-> FALSE, milli |-> r]

ErrRates == {NaN} \cup {Rate(r) : r \in {-500, 0, 10, 250, 500, 900, 1000, 1500}}

\* usize::MAX, the value a saturating `as usize` cast gives for +inf;
\* the model keeps usize at 31 bits
UsizeMax == 2147483647
\* isize::MAX, the largest allocation Vec accepts
IsizeMax == UsizeMax \div 2

BITS_PER_BYTE == 8

\* pow(LN_2, 2.0) * 8.0 in millionths
LN2_SQ_8 == 3843624

\* An f64 is [tag |-> "nan"], [tag |-> "pinf"], [tag |-> "ninf"] or
\* [tag |-> "fin", micro |-> v] for the value v / 10^6.
Fin(v) == [tag |-> "fin", micro |-> v]
FNaN == [tag |-> "nan", micro |-> 0]
PInf == [tag |-> "pinf", micro |-> 0]
NInf == [tag |-> "ninf", micro |-> 0]

\* libm::log, the natural logarithm
log(x) ==
    IF x.nan \/ x.milli < 0 THEN FNaN
    ELSE IF x.milli = 0 THEN NInf
    ELSE Fin(CASE x.milli = 10 -> -4605170
               [] x.milli = 250 -> -1386294
               [] x.milli = 500 -> -693147
               [] x.milli = 900 -> -105361
               [] x.milli = 1000 -> 0
               [] x.milli = 1500 -> 405465)

\* libm::log2
log2(x) ==
    IF x.nan \/ x.milli < 0 THEN FNaN
    ELSE IF x.milli = 0 THEN NInf
    ELSE Fin(CASE x.milli = 10 -> -6643856
               [] x.milli = 250 -> -2000000
               [] x.milli = 500 -> -1000000
               [] x.milli = 900 -> -152003
               [] x.milli = 1000 -> 0
               [] x.milli = 1500 -> 584963)

\* unary minus on f64
FNeg(f) ==
    CASE f.tag = "nan" -> FNaN
      [] f.tag = "pinf" -> NInf
      [] f.tag = "ninf" -> PInf
      [] f.tag = "fin" -> Fin(-f.micro)

\* `n as f64 * f` for a non-negative integer n
FScale(n, f) ==
    CASE f.tag = "nan" -> FNaN
      [] f.tag = "fin" -> Fin(n * f.micro)
      [] OTHER -> IF n = 0 THEN FNaN ELSE f

\* the cast without the ceil: `(f / d) as usize` truncates
FloorDivAsUsize(f, d) ==
    CASE f.tag = "nan" -> 0
      [] f.tag = "pinf" -> UsizeMax
      [] f.tag = "ninf" -> 0
      [] f.tag = "fin" -> IF f.micro <= 0 THEN 0 ELSE f.micro \div d

\* `ceil(f / d) as usize` for a positive finite divisor d given in
\* millionths: the cast saturates, NaN becomes 0
CeilDivAsUsize(f, d) ==
    CASE f.tag = "nan" -> 0
      [] f.tag = "pinf" -> UsizeMax
      [] f.tag = "ninf" -> 0
      [] f.tag = "fin" -> IF f.micro <= 0 THEN 0 ELSE (f.micro + d - 1) \div d

\* the range check written as 0.0..=1.0
RangeContains_inclusive(fp_rate) ==
    /\ ~fp_rate.nan
    /\ 0 <= fp_rate.milli
    /\ fp_rate.milli <= 1000

\* (0.0..1.0).contains(&fp_rate): a half-open range, false for NaN
RangeContains(fp_rate) ==
    /\ ~fp_rate.nan
    /\ 0 <= fp_rate.milli
    /\ fp_rate.milli < 1000

\* Bloom::calculate_bits_vec_size: the two assertions, then the size in bytes
calculate_bits_vec_size(items, fp_rate) ==
    IF ~(items > 0) THEN [panic |-> "Number of items must be > 0", value |-> 0]
    ELSE IF ~RangeContains(fp_rate)
    THEN [panic |-> "False positive rate must be between 0 and 1", value |-> 0]
    ELSE [panic |-> "",
          value |-> CeilDivAsUsize(FNeg(FScale(items, log(fp_rate))), LN2_SQ_8)]

\* the round count from the natural logarithm
calculate_hash_fn_number_ln(fp_rate) ==
    CeilDivAsUsize(FNeg(log(fp_rate)), 1000000)

\* the round count with the ceil left out
calculate_hash_fn_number_floor(fp_rate) ==
    FloorDivAsUsize(FNeg(log2(fp_rate)), 1000000)

\* Bloom::calculate_hash_fn_number: ceil(-log2(fp_rate)) as usize
calculate_hash_fn_number(fp_rate) ==
    CeilDivAsUsize(FNeg(log2(fp_rate)), 1000000)

----------------------------------------------------------------------------
(* u64 values are four 16-bit limbs, least significant first, so that      *)
(* the 64-bit wrap-around of the index arithmetic is kept.                  *)

LIMBS == 4
LIMB == 65536

\* F applied to the value of x, with x evaluated once
Let(x, F(_)) == CHOOSE y \in {F(v) : v \in {x}} : TRUE

\* the carry into limb j of a + b
RECURSIVE AddCarry(_, _, _)
AddCarry(a, b, j) ==
    IF j = 1 THEN 0 ELSE (a[j - 1] + b[j - 1] + AddCarry(a, b, j - 1)) \div LIMB

\* u64::wrapping_add: the carry out of the top limb is dropped
wrapping_add(a, b) ==
    [j \in 1..LIMBS |-> (a[j] + b[j] + AddCarry(a, b, j)) % LIMB]

\* the carry into limb j of i * h, for the round number i
RECURSIVE MulCarry(_, _, _)
MulCarry(i, h, j) ==
    IF j = 1 THEN 0 ELSE (i * h[j - 1] + MulCarry(i, h, j - 1)) \div LIMB

\* u64::wrapping_mul of the round number i (`i as u64`) and a digest
wrapping_mul(i, h) ==
    [j \in 1..LIMBS |-> (i * h[j] + MulCarry(i, h, j)) % LIMB]

\* the remainder by len of the limbs j and above of a
RECURSIVE RemFrom(_, _, _)
RemFrom(a, len, j) ==
    IF j > LIMBS THEN 0 ELSE (RemFrom(a, len, j + 1) * LIMB + a[j]) % len

\* the u64 remainder a % len, for 0 < len
U64Rem(a, len) == RemFrom(a, len, 1)

----------------------------------------------------------------------------
(* SipHasher13 is a collaborator of the crate: a keyed, deterministic map   *)
(* from the bytes an item feeds to a 64-bit digest.  It is modelled by a    *)
(* fixed keyed choice among digests from all over the 64-bit range.         *)

DigestTable ==
    << <<0, 0, 0, 0>>,
       <<9, 0, 0, 0>>,
       <<65535, 65535, 65535, 65535>>,
       <<1, 0, 0, 0>>,
       <<5, 0, 0, 32768>>,
       <<52719, 35243, 17767, 291>>,
       <<14, 0, 0, 0>> >>

\* the digest a SipHasher13 with keys (k0, k1) gives after hashing item
SipHash13(key, item) ==
    DigestTable[((3 * key[1] + 5 * key[2] + 2 * item) % Len(DigestTable)) + 1]

\* Bloom::bloom_hash: each stored hasher is copied, fed the item and finished
bloom_hash(hs, item) ==
    <<SipHash13(hs[1], item), SipHash13(hs[2], item)>>

----------------------------------------------------------------------------
(* BitVec: a byte array, here a function from 0..len-1 to 0..255            *)

\* BitVec::new: `bytes` zero bytes
BitVec_new(bytes) == [b \in 0..(bytes - 1) |-> 0]

\* BitVec::len: the number of bytes
BitVec_len(bv) == Cardinality(DOMAIN bv)

\* BitVec::capacity_in_bits
BitVec_capacity_in_bits(bv) == BitVec_len(bv) * BITS_PER_BYTE

\* 1 << bit_shift
Shl1(bit_shift) == 2 ^ bit_shift

\* byte & mask != 0 for a one-bit mask
AndNonZero(byte, mask) == (byte \div mask) % 2 = 1

\* byte ^ mask for a one-bit mask
BitOr_xor(byte, mask) == IF AndNonZero(byte, mask) THEN byte - mask ELSE byte + mask

\* byte | mask for a one-bit mask
BitOr(byte, mask) == IF AndNonZero(byte, mask) THEN byte ELSE byte + mask

\* BitVec::contain: the bounds assertion (and the slice index) panics when
\* the byte offset is out of range
BitVec_contain(bv, bit_offset) ==
    LET byte_offset == bit_offset \div BITS_PER_BYTE
        bit_shift == bit_offset % BITS_PER_BYTE
    IN IF ~(byte_offset < BitVec_len(bv))
       THEN [panic |-> TRUE, value |-> FALSE]
       ELSE [panic |-> FALSE, value |-> AndNonZero(bv[byte_offset], Shl1(bit_shift))]

\* BitVec::set with `=` in place of `|=`
BitVec_set_assign(bv, bit_offset) ==
    LET byte_offset == bit_offset \div BITS_PER_BYTE
        bit_shift == bit_offset % BITS_PER_BYTE
    IN IF ~(byte_offset < Cardinality(DOMAIN bv))
       THEN [panic |-> TRUE, value |-> bv]
       ELSE [panic |-> FALSE,
             value |-> [bv EXCEPT ![byte_offset] = 2 ^ bit_shift]]

\* BitVec::set
BitVec_set(bv, bit_offset) ==
    LET byte_offset == bit_offset \div BITS_PER_BYTE
        bit_shift == bit_offset % BITS_PER_BYTE
    IN IF ~(byte_offset < BitVec_len(bv))
       THEN [panic |-> TRUE, value |-> bv]
       ELSE [panic |-> FALSE,
             value |-> [bv EXCEPT ![byte_offset] = BitOr(@, Shl1(bit_shift))]]

\* a clear that starts at the second byte
BitVec_clear_skip_first(bv) == [b \in DOMAIN bv |-> IF b = 0 THEN bv[b] ELSE 0]

\* a clear that truncates the Vec (Vec::clear) instead of zeroing it
BitVec_clear_truncate(bv) == [b \in {} |-> 0]

\* BitVec::clear: every byte becomes 0
BitVec_clear(bv) == [b \in DOMAIN bv |-> 0]

----------------------------------------------------------------------------
(* Bloom                                                                    *)

\* get_index with the capacity in bits as the modulus
get_index_bits(bv, h, i) ==
    Let(Cardinality(DOMAIN bv) * BITS_PER_BYTE, LAMBDA len :
        IF len = 0
        THEN [panic |-> TRUE, value |-> 0]
        ELSE [panic |-> FALSE,
              value |-> Let(wrapping_mul(i, h[2]), LAMBDA p :
                        Let(wrapping_add(h[1], p), LAMBDA s : U64Rem(s, len)))])

\* get_index with the modulus one above the capacity in bits
get_index_off_by_one(bv, h, i) ==
    [panic |-> FALSE,
     value |-> Let(wrapping_mul(i, h[2]), LAMBDA p :
               Let(wrapping_add(h[1], p), LAMBDA s :
                   U64Rem(s, Cardinality(DOMAIN bv) * BITS_PER_BYTE + 1)))]

\* Bloom::get_index: (h1 + i * h2) % len with 64-bit wrapping; the
\* remainder by a zero length panics
get_index(bv, h, i) ==
    Let(BitVec_len(bv), LAMBDA len :
        IF len = 0
        THEN [panic |-> TRUE, value |-> 0]
        ELSE [panic |-> FALSE,
              value |-> Let(wrapping_mul(i, h[2]), LAMBDA p :
                        Let(wrapping_add(h[1], p), LAMBDA s : U64Rem(s, len)))])

\* one round of the loop of Bloom::set on the loop state st: the index,
\* then BitVec::set
SetRound(st, h, n) ==
    Let(get_index(st.bits, h, n), LAMBDA index :
        IF index.panic
        THEN [st EXCEPT !.panic = TRUE]
        ELSE Let(BitVec_set(st.bits, index.value), LAMBDA r :
                 [panic |-> r.panic, bits |-> r.value,
                  probes |-> Append(st.probes, index.value)]))

\* the loop of Bloom::set from round i on: the bits it leaves, the offsets
\* it handed to the BitVec and whether it panicked
SetLoop(bv, h, k, i) ==
    LET RECURSIVE L(_, _)
        L(st, n) ==
            IF st.panic \/ ~(n < k) THEN st
            ELSE Let(SetRound(st, h, n), LAMBDA next : L(next, n + 1))
    IN Let([panic |-> FALSE, bits |-> bv, probes |-> <<>>], LAMBDA st : L(st, i))

\* a set whose loop starts at round 1
Bloom_set_from_one(bv, k, hs, item) ==
    Let(bloom_hash(hs, item), LAMBDA h : SetLoop(bv, h, k, 1))

\* Bloom::set
Bloom_set(bv, k, hs, item) ==
    Let(bloom_hash(hs, item), LAMBDA h : SetLoop(bv, h, k, 0))

\* a round of contain that never returns early
ContainRound_no_return(bv, st, h, n) ==
    [st EXCEPT !.probes = Append(@, get_index(bv, h, n).value)]

\* one round of the loop of Bloom::contain on the loop state st: the index,
\* then BitVec::contain; done is set by the early `return false`
ContainRound(bv, st, h, n) ==
    Let(get_index(bv, h, n), LAMBDA index :
        IF index.panic
        THEN [st EXCEPT !.panic = TRUE, !.value = FALSE]
        ELSE Let(BitVec_contain(bv, index.value), LAMBDA r :
                 [panic |-> r.panic, done |-> ~r.panic /\ ~r.value, value |-> FALSE,
                  probes |-> Append(st.probes, index.value)]))

\* the loop of Bloom::contain from round i on: false at the first unset
\* bit, true when the loop runs to its end
ContainLoop(bv, h, k, i) ==
    LET RECURSIVE L(_, _)
        L(st, n) ==
            IF st.panic \/ st.done THEN st
            ELSE IF ~(n < k) THEN [st EXCEPT !.value = TRUE]
            ELSE Let(ContainRound(bv, st, h, n), LAMBDA next : L(next, n + 1))
    IN Let([panic |-> FALSE, done |-> FALSE, value |-> FALSE, probes |-> <<>>],
           LAMBDA st : L(st, i))

\* Bloom::contain
Bloom_contain(bv, k, hs, item) ==
    Let(bloom_hash(hs, item), LAMBDA h : ContainLoop(bv, h, k, 0))

\* Bloom::capacity_in_bits
capacity_in_bits(bv) == BitVec_capacity_in_bits(bv)

\* RngCore::next_u64 of the supplied source: the word at stream position p
next_u64(p) == p % (MaxKeyWord + 1)

----------------------------------------------------------------------------
(* State                                                                    *)

VARIABLES
    pc,              \* "start" before construction, "ready" while the filter
                     \* lives, "panicked" once a call has panicked
    panic,           \* the message of the panic, "" while there is none
    bits,            \* Bloom.bits, the BitVec
    hash_fn_number,  \* Bloom.hash_fn_number
    hashers,         \* Bloom.hashers, as the two key pairs of the hashers
    rng,             \* the position in its stream of the randomness source
                     \* handed to new_with_rng, 0 while none was
    cfg,             \* the arguments of the constructor call; seed is the
                     \* position of the source when it was handed over
    inserted,        \* the values passed to set since the last clear
    stale,           \* the values passed to set before the last clear and
                     \* not since
    lastOp,          \* the last call: its name, its argument and whether it
                     \* repeats the call right before it
    result,          \* what the last contain returned
    probes           \* the bit offsets the last set or contain handed to
                     \* the BitVec, in order

vars == <<pc, panic, bits, hash_fn_number, hashers, rng, cfg, inserted, stale,
          lastOp, result, probes>>

NoKeys == <<<<0, 0>>, <<0, 0>>>>
NoCfg == [items |-> 0, err_rate |-> NaN, keys |-> NoKeys, seed |-> 0]
Op(name, item, again) == [op |-> name, item |-> item, again |-> again]

Init ==
    /\ pc = "start"
    /\ panic = ""
    /\ bits = BitVec_new(0)
    /\ hash_fn_number = 0
    /\ hashers = NoKeys
    /\ rng = 0
    /\ cfg = NoCfg
    /\ inserted = {}
    /\ stale = {}
    /\ lastOp = Op("none", 0, FALSE)
    /\ result = FALSE
    /\ probes = <<>>

\* vec![0u8; bytes]: a request above isize::MAX panics
Vec_alloc(bytes) ==
    IF bytes > IsizeMax
    THEN [panic |-> "capacity overflow", value |-> BitVec_new(0)]
    ELSE [panic |-> "", value |-> BitVec_new(bytes)]

\* the body of Bloom::new_with_key: the size (with its assertions), the
\* round count, the hashers from the keys, then the allocation
Construct(items, err_rate, keys) ==
    LET bits_size == calculate_bits_vec_size(items, err_rate)
        k == calculate_hash_fn_number(err_rate)
    IN IF bits_size.panic # ""
       THEN [panic |-> bits_size.panic, bits |-> BitVec_new(0),
             hash_fn_number |-> 0, hashers |-> NoKeys]
       ELSE LET v == Vec_alloc(bits_size.value)
            IN IF v.panic # ""
               THEN [panic |-> v.panic, bits |-> BitVec_new(0),
                     hash_fn_number |-> 0, hashers |-> NoKeys]
               ELSE [panic |-> "", bits |-> v.value,
                     hash_fn_number |-> k, hashers |-> keys]

\* the four words drawn with the pairs filled across instead of in order
DrawKeys_transposed(seed) ==
    <<<<next_u64(seed), next_u64(seed + 2)>>,
      <<next_u64(seed + 1), next_u64(seed + 3)>>>>

\* the keys of Bloom::new_with_rng: four successive words of the source,
\* the first two for hasher 0 and the next two for hasher 1
DrawKeys(seed) ==
    <<<<next_u64(seed), next_u64(seed + 1)>>,
      <<next_u64(seed + 2), next_u64(seed + 3)>>>>

\* the body of Bloom::new_with_rng: the round count, then the four words,
\* then the hashers, then the size (with its assertions) and the
\* allocation; rng is the position the source is left at
ConstructRng(items, err_rate, seed) ==
    LET k == calculate_hash_fn_number(err_rate)
        keys == DrawKeys(seed)
        drawn == seed + 4
        bits_size == calculate_bits_vec_size(items, err_rate)
    IN IF bits_size.panic # ""
       THEN [panic |-> bits_size.panic, bits |-> BitVec_new(0),
             hash_fn_number |-> 0, hashers |-> NoKeys, keys |-> keys,
             rng |-> drawn]
       ELSE LET v == Vec_alloc(bits_size.value)
            IN IF v.panic # ""
               THEN [panic |-> v.panic, bits |-> BitVec_new(0),
                     hash_fn_number |-> 0, hashers |-> NoKeys, keys |-> keys,
                     rng |-> drawn]
               ELSE [panic |-> "", bits |-> v.value,
                     hash_fn_number |-> k, hashers |-> keys, keys |-> keys,
                     rng |-> drawn]

\* the effect of a constructor call that went as f on the filter's fields
Built(name, f, items, err_rate, keys, seed) ==
    /\ pc' = IF f.panic = "" THEN "ready" ELSE "panicked"
    /\ panic' = f.panic
    /\ bits' = f.bits
    /\ hash_fn_number' = f.hash_fn_number
    /\ hashers' = f.hashers
    /\ cfg' = [items |-> items, err_rate |-> err_rate, keys |-> keys,
               seed |-> seed]
    /\ lastOp' = Op(name, 0, FALSE)
    /\ UNCHANGED <<inserted, stale, result, probes>>

\* Bloom::new_with_key
new_with_key(items, err_rate, keys) ==
    /\ pc = "start"
    /\ \E f \in {Construct(items, err_rate, keys)} :
          Built("new_with_key", f, items, err_rate, keys, 0)
    /\ UNCHANGED rng

\* new_with_rng with the size computed, and its assertions made, before the
\* source is touched
new_with_rng_validate_first(items, err_rate, seed) ==
    /\ pc = "start"
    /\ \E f \in {ConstructRng(items, err_rate, seed)} :
          /\ Built("new_with_rng", f, items, err_rate, f.keys, seed)
          /\ rng' = IF f.panic = "" THEN f.rng ELSE seed

\* Bloom::new_with_rng, handed a source at position seed
new_with_rng(items, err_rate, seed) ==
    /\ pc = "start"
    /\ \E f \in {ConstructRng(items, err_rate, seed)} :
          /\ Built("new_with_rng", f, items, err_rate, f.keys, seed)
          /\ rng' = f.rng

\* Bloom::set
set(item) ==
    /\ pc = "ready"
    /\ \E r \in {Bloom_set(bits, hash_fn_number, hashers, item)} :
          /\ bits' = r.bits
          /\ probes' = r.probes
          /\ pc' = IF r.panic THEN "panicked" ELSE "ready"
          /\ panic' = IF r.panic THEN "bit_offset out of bounds" ELSE ""
    /\ inserted' = inserted \cup {item}
    /\ stale' = stale \ {item}
    /\ lastOp' = Op("set", item, lastOp.op = "set" /\ lastOp.item = item)
    /\ UNCHANGED <<hash_fn_number, hashers, rng, cfg, result>>

\* a contain that also sets the bits it looked for
contain_marks(item) ==
    /\ pc = "ready"
    /\ \E r \in {Bloom_contain(bits, hash_fn_number, hashers, item)} :
          /\ result' = r.value
          /\ probes' = r.probes
          /\ pc' = IF r.panic THEN "panicked" ELSE "ready"
          /\ panic' = IF r.panic THEN "bit_offset out of bounds" ELSE ""
    /\ bits' = Bloom_set(bits, hash_fn_number, hashers, item).bits
    /\ lastOp' = Op("contain", item, lastOp.op = "contain" /\ lastOp.item = item)
    /\ UNCHANGED <<hash_fn_number, hashers, rng, cfg, inserted, stale>>

\* Bloom::contain
contain(item) ==
    /\ pc = "ready"
    /\ \E r \in {Bloom_contain(bits, hash_fn_number, hashers, item)} :
          /\ result' = r.value
          /\ probes' = r.probes
          /\ pc' = IF r.panic THEN "panicked" ELSE "ready"
          /\ panic' = IF r.panic THEN "bit_offset out of bounds" ELSE ""
    /\ lastOp' = Op("contain", item, lastOp.op = "contain" /\ lastOp.item = item)
    /\ UNCHANGED <<bits, hash_fn_number, hashers, rng, cfg, inserted, stale>>

\* Bloom::clear
clear ==
    /\ pc = "ready"
    /\ bits' = BitVec_clear(bits)
    /\ inserted' = {}
    /\ stale' = stale \cup inserted
    /\ lastOp' = Op("clear", 0, FALSE)
    /\ probes' = <<>>
    /\ UNCHANGED <<pc, panic, hash_fn_number, hashers, rng, cfg, result>>

NewWithKey ==
    \E items \in 0..MaxItems, err_rate \in ErrRates, key0 \in KeyPairs, key1 \in KeyPairs :
        new_with_key(items, err_rate, <<key0, key1>>)

NewWithRng ==
    \E items \in 0..MaxItems, err_rate \in ErrRates, seed \in 0..MaxSeed :
        new_with_rng(items, err_rate, seed)

Set == \E item \in Values : set(item)

Contain == \E item \in Values : contain(item)

Clear == clear

Next == NewWithKey \/ NewWithRng \/ Set \/ Contain \/ Clear

Spec == Init /\ [][Next]_vars

----------------------------------------------------------------------------
(* Properties                                                               *)

\* what contain(x) returns in the current state
Query(x) == Bloom_contain(bits, hash_fn_number, hashers, x).value

\* the two digests of x under the stored hashers
Digests(x) == bloom_hash(hashers, x)

\* the error rate lies strictly inside (0, 1)
StrictlyInside(e) == ~e.nan /\ 0 < e.milli /\ e.milli < 1000

IsConstructor(o) == o.op \in {"new_with_key", "new_with_rng"}

\* C1: no false negatives.  Every value passed to set since the last clear
\* is reported present, in every state and by every contain call, however
\* many other values were set after it.
NoFalseNegatives ==
    pc = "ready" =>
        /\ \A x \in inserted : Query(x)
        /\ (lastOp.op = "contain" /\ lastOp.item \in inserted) => result

\* more values were set than the expected item count, and a contain call on
\* one of them answered true
NoFalseNegativesWitness ==
    /\ pc = "ready"
    /\ Cardinality(inserted) > cfg.items
    /\ lastOp.op = "contain"
    /\ lastOp.item \in inserted
    /\ result

\* C2: the offsets a set or contain call hands to the BitVec are
\* (h1 + i * h2) mod m for i = 0, 1, ..., with m the capacity in bits.
IndexModCapacityInBits ==
    (pc = "ready" /\ lastOp.op \in {"set", "contain"}) =>
        \A j \in 1..Len(probes) :
            probes[j] = U64Rem(wrapping_add(Digests(lastOp.item)[1],
                                            wrapping_mul(j - 1, Digests(lastOp.item)[2])),
                               capacity_in_bits(bits))

\* C3: a constructor call with items = 0 or an error rate outside the open
\* interval (0, 1) panics and leaves no filter; a filter exists only for
\* items > 0 and a rate strictly inside (0, 1).
ConstructionValidation ==
    /\ (IsConstructor(lastOp) /\ (cfg.items = 0 \/ ~StrictlyInside(cfg.err_rate)))
           => (pc = "panicked" /\ panic # "" /\ BitVec_len(bits) = 0)
    /\ pc = "ready" => (cfg.items > 0 /\ StrictlyInside(cfg.err_rate))

\* new_with_rng was called with a positive item count and the rate 0.0,
\* which the range check lets through, and panicked
ConstructionValidationWitness ==
    /\ lastOp.op = "new_with_rng"
    /\ cfg.items > 0
    /\ cfg.err_rate = Rate(0)
    /\ pc = "panicked"

\* C4, as stated: every value set before the last clear and not set again
\* since is reported absent.
ClearResetsMembership ==
    pc = "ready" => \A x \in stale : ~Query(x)

\* C4, amended: as long as no value has been set since the last clear,
\* every value set before it is reported absent.
ClearResetsMembershipUntilSet ==
    (pc = "ready" /\ inserted = {}) =>
        /\ \A x \in stale : ~Query(x)
        /\ (lastOp.op = "contain" /\ lastOp.item \in stale) => ~result

\* a contain call right after a clear, on a value set before the clear
ClearResetsMembershipWitness ==
    /\ pc = "ready"
    /\ inserted = {}
    /\ lastOp.op = "contain"
    /\ lastOp.item \in stale
    /\ ~result

\* C5: a constructed filter has a capacity of at least 8 bits, and the
\* capacity is 8 times the byte length of the buffer.
CapacityPositivity ==
    pc = "ready" =>
        /\ capacity_in_bits(bits) >= 8
        /\ capacity_in_bits(bits) = 8 * BitVec_len(bits)

\* a filter built for a rate close to 1 has the smallest buffer, one byte
CapacityPositivityWitness ==
    /\ pc = "ready"
    /\ IsConstructor(lastOp)
    /\ cfg.err_rate = Rate(900)
    /\ capacity_in_bits(bits) = 8

\* C6: a filter on which set was never called reports every value absent.
EmptyFilterNoPositives ==
    (pc = "ready" /\ inserted = {} /\ stale = {}) =>
        /\ \A x \in Values : ~Query(x)
        /\ lastOp.op = "contain" => ~result

\* a contain call on a filter that never saw a set
EmptyFilterWitness ==
    /\ pc = "ready"
    /\ inserted = {}
    /\ stale = {}
    /\ lastOp.op = "contain"
    /\ ~result

\* C7: a set call that repeats the set call right before it leaves the bits
\* as that call left them.
IdempotentInsert ==
    [][(lastOp'.op = "set" /\ lastOp'.again) => bits' = bits]_vars

\* the same value was set twice in a row, in at least two rounds
IdempotentInsertWitness ==
    /\ pc = "ready"
    /\ lastOp.op = "set"
    /\ lastOp.again
    /\ Len(probes) >= 2

\* C8: after clear the filter is the filter a constructor builds from the
\* same items, err_rate and keys: zero bits, same buffer length, same round
\* count, same keys.
ClearIsReset ==
    lastOp.op = "clear" =>
        LET fresh == Construct(cfg.items, cfg.err_rate, cfg.keys)
        IN /\ pc = "ready"
           /\ fresh.panic = ""
           /\ bits = fresh.bits
           /\ hash_fn_number = fresh.hash_fn_number
           /\ hashers = fresh.hashers

\* a clear of a filter that held values
ClearIsResetWitness ==
    /\ lastOp.op = "clear"
    /\ stale # {}

\* the bit at offset o is set
BitIsSet(o) == BitVec_contain(bits, o).value

\* the offset derived for value x in round i
IndexOf(x, i) == get_index(bits, Digests(x), i).value

\* C9: contain(x) answers true exactly when the bits at all k derived
\* positions are set, and it stops at the first unset one: it tests the
\* positions in round order, all k when it answers true, and up to and
\* including the first unset one when it answers false.
QueryResult ==
    (pc = "ready" /\ lastOp.op = "contain") =>
        /\ result = (\A i \in 0..(hash_fn_number - 1) : BitIsSet(IndexOf(lastOp.item, i)))
        /\ \A j \in 1..Len(probes) : probes[j] = IndexOf(lastOp.item, j - 1)
        /\ result => Len(probes) = hash_fn_number
        /\ ~result =>
              /\ Len(probes) >= 1
              /\ ~BitIsSet(probes[Len(probes)])
              /\ \A j \in 1..(Len(probes) - 1) : BitIsSet(probes[j])

\* a contain call that found a set bit first and then stopped at an unset
\* one before the last round
QueryResultWitness ==
    /\ pc = "ready"
    /\ lastOp.op = "contain"
    /\ ~result
    /\ Len(probes) >= 2
    /\ Len(probes) < hash_fn_number

\* C10: every offset handed to the BitVec lies in 0 .. len_bytes * 8 - 1,
\* so neither bounds assertion fires.
InBoundsAddressing ==
    /\ \A j \in 1..Len(probes) :
           0 <= probes[j] /\ probes[j] < BitVec_len(bits) * BITS_PER_BYTE
    /\ panic # "bit_offset out of bounds"

\* a set call that went through all its rounds and touched a bit other than
\* bit 0
InBoundsAddressingWitness ==
    /\ pc = "ready"
    /\ lastOp.op = "set"
    /\ Len(probes) = hash_fn_number
    /\ \E j \in 1..Len(probes) : probes[j] > 0

\* C11: new_with_rng on a source whose next four words are w1..w4 leaves
\* the source four words further and gives what new_with_key gives for the
\* keys [(w1, w2), (w3, w4)]: the same buffer, round count and hasher keys,
\* or the same panic.
RngEqualsKeyed ==
    lastOp.op = "new_with_rng" =>
        LET w1 == next_u64(cfg.seed)
            w2 == next_u64(cfg.seed + 1)
            w3 == next_u64(cfg.seed + 2)
            w4 == next_u64(cfg.seed + 3)
            keyed == Construct(cfg.items, cfg.err_rate, <<<<w1, w2>>, <<w3, w4>>>>)
        IN /\ rng = cfg.seed + 4
           /\ panic = keyed.panic
           /\ bits = keyed.bits
           /\ hash_fn_number = keyed.hash_fn_number
           /\ hashers = keyed.hashers

\* a filter built from a source that was not at the start of its stream
RngEqualsKeyedWitness ==
    /\ pc = "ready"
    /\ lastOp.op = "new_with_rng"
    /\ cfg.seed > 0
    /\ hashers[1][1] # hashers[1][2]

\* C12: a constructed filter has at least one hash round, and no call
\* changes the round count, the buffer length, the capacity or the keys.
FixedConfiguration ==
    /\ [](pc = "ready" => hash_fn_number >= 1)
    /\ [][pc = "ready" =>
             /\ hash_fn_number' = hash_fn_number
             /\ BitVec_len(bits') = BitVec_len(bits)
             /\ capacity_in_bits(bits') = capacity_in_bits(bits)
             /\ hashers' = hashers]_vars

\* a contain call on a filter that was filled, cleared and filled again
FixedConfigurationWitness ==
    /\ pc = "ready"
    /\ lastOp.op = "contain"
    /\ stale # {}
    /\ inserted # {}

\* k is ceil(-log2(e)) for the rate e given in thousandths: the least k
\* with 2^-k <= e
IsCeilNegLog2(k, e) ==
    /\ k >= 0
    /\ (2 ^ k) * e.milli >= 1000
    /\ k >= 1 => (2 ^ (k - 1)) * e.milli < 1000

\* C13: the round count of a constructed filter is ceil(-log2(err_rate)) on
\* both construction paths; the rates 2^-1 and 2^-2 give 1 and 2.
HashRoundCount ==
    pc = "ready" =>
        /\ IsCeilNegLog2(hash_fn_number, cfg.err_rate)
        /\ cfg.err_rate = Rate(500) => hash_fn_number = 1
        /\ cfg.err_rate = Rate(250) => hash_fn_number = 2

\* a filter built by new_with_rng for the rate 0.01, which is no power of
\* two
HashRoundCountWitness ==
    /\ pc = "ready"
    /\ lastOp.op = "new_with_rng"
    /\ cfg.err_rate = Rate(10)
    /\ hash_fn_number = 7

\* the offsets of the bits set in bv
SetBits(bv) ==
    {o \in 0..(BitVec_capacity_in_bits(bv) - 1) : BitVec_contain(bv, o).value}

\* the positions derived for value x in the rounds 0 .. k-1
Positions(x) == {IndexOf(x, i) : i \in 0..(hash_fn_number - 1)}

\* C14: set(x) leaves exactly the bits that were set together with the k
\* positions derived for x, and no call other than clear unsets a bit.
ExactEffectOfInsert ==
    [][/\ lastOp'.op = "set" =>
              SetBits(bits') = SetBits(bits) \cup Positions(lastOp'.item)
       /\ (pc = "ready" /\ lastOp'.op # "clear") =>
              SetBits(bits) \subseteq SetBits(bits')]_vars

\* a set call on a filter that holds another value already, leaving at
\* least three bits set
ExactEffectOfInsertWitness ==
    /\ pc = "ready"
    /\ lastOp.op = "set"
    /\ Cardinality(inserted) >= 2
    /\ Cardinality(SetBits(bits)) >= 3

\* C15: contain changes neither the bits nor the round count nor the
\* hashers, so the digests of a value stay the same, and a contain call
\* that repeats the call right before it returns the same answer.
QueryIsReadOnly ==
    [][lastOp'.op = "contain" =>
          /\ bits' = bits
          /\ hash_fn_number' = hash_fn_number
          /\ hashers' = hashers
          /\ \A x \in Values : bloom_hash(hashers', x) = bloom_hash(hashers, x)
          /\ lastOp'.again => result' = result]_vars

\* the same value was queried twice in a row on a filter that holds values
\* it does not hold
QueryIsReadOnlyWitness ==
    /\ pc = "ready"
    /\ lastOp.op = "contain"
    /\ lastOp.again
    /\ inserted # {}
    /\ lastOp.item \notin inserted

RngDrawnBeforeValidation ==
    /\ lastOp.op = "new_with_rng" => rng = cfg.seed + 4
    /\ lastOp.op = "new_with_key" => rng = 0
    /\ (IsConstructor(lastOp) /\ (cfg.items = 0 \/ ~RangeContains(cfg.err_rate)))
           => panic \in {"Number of items must be > 0",
                         "False positive rate must be between 0 and 1"}

\* a new_with_rng call that panicked on items = 0 after drawing four words
RngDrawnBeforeValidationWitness ==
    /\ lastOp.op = "new_with_rng"
    /\ pc = "panicked"
    /\ cfg.items = 0
    /\ rng = cfg.seed + 4

====
